---- MODULE Spec2Model ----
(***************************************************************************)
(* Model of the account service of LeCoinTS/ApiRestTypeScript              *)
(* (src/src/index.ts and its near-duplicate src/unnamed/part_000).         *)
(*                                                                         *)
(* State: the SQLite table `utilisateurs`, its AUTOINCREMENT counter, and  *)
(* the handlers suspended at an `await argon2.hash` / `await               *)
(* argon2.verify`.  A handler runs synchronously (one JavaScript turn)     *)
(* from its arrival up to its first await, and from the resolution of      *)
(* that await to its response; the suspended handlers resume in any        *)
(* order (argon2 computes on the libuv thread pool).                       *)
(***************************************************************************)
EXTENDS Integers, Sequences, FiniteSets, TLC

\* ---------------------------------------------------------------- bounds
\* Largest rowid the table hands out; number of handlers suspended at once.
MaxId == 2
MaxEnAttente == 1

\* ---------------------------------------------------------------- values
Absent == "undefined"
Vide == ""
Noms == {"alice", "bob"}
Emails == {"a@x.io", "new@x"}
\* Two secrets that differ in a single character.
Secrets == {"p@ss1", "p@ss2"}
Sels == {1, 2}
Colonnes == {"nomutilisateur", "motdepasse", "email"}
Ids == 1..MaxId

CorpsVide == [nomutilisateur |-> Absent, motdepasse |-> Absent, email |-> Absent]

\* Request bodies: every field a value or absent, and bodies with an empty
\* string in each position.
Corps ==
  [nomutilisateur : Noms \cup {Absent}, motdepasse : Secrets \cup {Absent},
   email : Emails \cup {Absent}]
  \cup {[nomutilisateur |-> Vide, motdepasse |-> "p@ss1", email |-> "a@x.io"],
        [nomutilisateur |-> "alice", motdepasse |-> Vide, email |-> Vide],
        [nomutilisateur |-> Vide, motdepasse |-> "p@ss1", email |-> Absent]}

\* JavaScript truthiness of a request field: undefined and "" are falsy.
Falsy(v) == v \in {Absent, Vide}

VARIABLES variante, utilisateurs, sqlite_sequence, enAttente, reponse,
          ecrit, emis, supprimes

vars == <<variante, utilisateurs, sqlite_sequence, enAttente, reponse,
          ecrit, emis, supprimes>>

\* ---------------------------------------------------------------- argon2
\* A salted one-way encoding: the token carries its salt and the digest of
\* (salt, secret); verification recomputes the digest from the token's salt.
Condense(sel, m) == <<sel, m>>

argon2_hash(m, sel) == [sel |-> sel, empreinte |-> Condense(sel, m)]

\* Verification that hashes the candidate afresh and compares the tokens.
argon2_verify_rehache(h, m) == h = argon2_hash(m, 1)

argon2_verify(h, m) == h.empreinte = Condense(h.sel, m)

AucunHash == [sel |-> 0, empreinte |-> <<0, Absent>>]

\* ---------------------------------------------------------------- SQLite
Max(S) == IF S = {} THEN 0 ELSE CHOOSE m \in S : \A n \in S : n <= m

\* A table whose email column lost its UNIQUE constraint.
ViolationUnique_nomSeul(t, id, ligne) ==
  \E j \in DOMAIN t : j # id /\ t[j].nomutilisateur = ligne.nomutilisateur

\* UNIQUE(nomutilisateur), UNIQUE(email): does `ligne`, stored under `id`,
\* clash with another row of the table?
ViolationUnique(t, id, ligne) ==
  \E j \in DOMAIN t :
     /\ j # id
     /\ \/ t[j].nomutilisateur = ligne.nomutilisateur
        \/ t[j].email = ligne.email

\* INTEGER PRIMARY KEY without AUTOINCREMENT: the largest rowid in use, plus one.
ProchainId_sansAutoincrement(t, seq) == Max(DOMAIN t) + 1

\* INTEGER PRIMARY KEY AUTOINCREMENT: one more than the largest rowid ever
\* used, which sqlite_sequence remembers across deletions.
ProchainId(t, seq) == Max(DOMAIN t \cup {seq}) + 1

\* INSERT INTO utilisateurs (nomutilisateur, motdepasse, email) VALUES (?, ?, ?)
\* The statement is atomic: when it throws, table and counter are as before.
SqlInsert(t, seq, ligne) ==
  LET id == ProchainId(t, seq)
  IN IF ViolationUnique(t, id, ligne)
     THEN [t |-> t, seq |-> seq, lastInsertRowid |-> 0, throw |-> TRUE]
     ELSE [t |-> (id :> ligne) @@ t, seq |-> id, lastInsertRowid |-> id, throw |-> FALSE]

\* A SET clause that loses its email assignment.
LigneMiseAJour_sansEmail(ligne, updates) ==
  [c \in Colonnes |->
     IF c \in DOMAIN updates /\ c # "email" THEN updates[c] ELSE ligne[c]]

\* Row after `SET <keys of updates>`: the named columns change, the others stay.
LigneMiseAJour(ligne, updates) ==
  [c \in Colonnes |-> IF c \in DOMAIN updates THEN updates[c] ELSE ligne[c]]

\* One UPDATE per column: the secret is written before the unique columns fail.
SqlUpdate_partiel(t, id, updates) ==
  IF id \notin DOMAIN t
  THEN [t |-> t, changes |-> 0, throw |-> FALSE]
  ELSE IF ViolationUnique(t, id, LigneMiseAJour(t[id], updates))
  THEN [t |-> IF "motdepasse" \in DOMAIN updates
              THEN [t EXCEPT ![id].motdepasse = updates.motdepasse] ELSE t,
        changes |-> 0, throw |-> TRUE]
  ELSE [t |-> [t EXCEPT ![id] = LigneMiseAJour(@, updates)], changes |-> 1, throw |-> FALSE]

\* INSERT OR REPLACE in place of UPDATE: a missing row is created.
SqlUpdate_upsert(t, id, updates) ==
  IF id \notin DOMAIN t
  THEN [t |-> (id :> LigneMiseAJour([nomutilisateur |-> Absent, motdepasse |-> AucunHash,
                                     email |-> Absent], updates)) @@ t,
        changes |-> 1, throw |-> FALSE]
  ELSE IF ViolationUnique(t, id, LigneMiseAJour(t[id], updates))
  THEN [t |-> t, changes |-> 0, throw |-> TRUE]
  ELSE [t |-> [t EXCEPT ![id] = LigneMiseAJour(@, updates)], changes |-> 1, throw |-> FALSE]

\* UPDATE utilisateurs SET <keys of updates> WHERE id = ?
SqlUpdate(t, id, updates) ==
  IF id \notin DOMAIN t
  THEN [t |-> t, changes |-> 0, throw |-> FALSE]
  ELSE IF ViolationUnique(t, id, LigneMiseAJour(t[id], updates))
  THEN [t |-> t, changes |-> 0, throw |-> TRUE]
  ELSE [t |-> [t EXCEPT ![id] = LigneMiseAJour(@, updates)], changes |-> 1, throw |-> FALSE]

\* A DELETE whose result always reports one row changed.
SqlDelete_toujours(t, id) ==
  [t |-> [j \in DOMAIN t \ {id} |-> t[j]], changes |-> 1]

\* DELETE FROM utilisateurs WHERE id = ?
SqlDelete(t, id) ==
  IF id \notin DOMAIN t
  THEN [t |-> t, changes |-> 0]
  ELSE [t |-> [j \in DOMAIN t \ {id} |-> t[j]], changes |-> 1]

\* The lookup of the verification made on the wrong column.
ParNom_parEmail(t, nom) == {j \in DOMAIN t : t[j].email = nom}

\* SELECT motdepasse FROM utilisateurs WHERE nomutilisateur = ?
ParNom(t, nom) == {j \in DOMAIN t : t[j].nomutilisateur = nom}

\* SELECT id, nomutilisateur, email FROM utilisateurs WHERE id = ?
Public(t, id) ==
  [id |-> id, nomutilisateur |-> t[id].nomutilisateur, email |-> t[id].email]

\* SELECT id, nomutilisateur, email FROM utilisateurs (rowid order)
RECURSIVE Liste(_, _)
Liste(t, S) ==
  IF S = {} THEN << >>
  ELSE LET m == Max(S) IN Append(Liste(t, S \ {m}), Public(t, m))

\* ---------------------------------------------------------------- express
validateUserInput(corps) ==
  ~(Falsy(corps.nomutilisateur) \/ Falsy(corps.motdepasse) \/ Falsy(corps.email))

\* What guards PUT: the middleware validateUserInput in the variant
\* part_000, the at-least-one-field test in index.ts.
PutAccepte(v, corps) ==
  IF v = "part_000" THEN validateUserInput(corps)
  ELSE ~(Falsy(corps.nomutilisateur) /\ Falsy(corps.motdepasse) /\ Falsy(corps.email))

ErreurPut(v) ==
  IF v = "part_000" THEN "Tous les champs sont requis"
  ELSE "Au moins un champ doit etre fourni (nomutilisateur, motdepasse, ou email)"

\* The all-columns UPDATE of the variant part_000, without its middleware.
Updates_tous(corps, h) ==
  [c \in Colonnes |-> IF c = "motdepasse" THEN h ELSE corps[c]]

\* The `updates` object of the PUT handler: only the truthy fields, the
\* secret replaced by its hash.
Updates(corps, h) ==
  [c \in {k \in Colonnes : ~Falsy(corps[k])} |->
     IF c = "motdepasse" THEN h ELSE corps[c]]

\* The response of POST /utilisateurs for each cause of failure: the
\* middleware's, and the one of the handler's catch block.
ReponseCreation(cause) ==
  IF cause = "validation"
  THEN [status |-> 400, json |-> [erreur |-> "Tous les champs sont requis"]]
  ELSE [status |-> 400, json |-> [erreur |-> "Erreur lors de la creation de l'utilisateur"]]

\* ---------------------------------------------------------------- steps
\* A step of a handler: the request it serves and, when the step ends the
\* request, the response sent (status 0: suspended at an await).
\* `reprise`: the step is the continuation of an await.  The request body
\* is recorded with the steps that accept the request (a suspension, a
\* success, an outcome of the verification), not with a rejection.
\* History kept with a suspended handler: `depasse`, what the requests that
\* arrived after it did to its target row meanwhile (for each of its own
\* columns, the value written by the latest-arriving of them; "supprime"
\* once the row is deleted); `attendu`, the secret last written for the
\* account a verification looked up.
Histoire(depasse, attendu) == [depasse |-> depasse, attendu |-> attendu]

SansHistoire == Histoire(<< >>, Absent)

Supprime == [c \in {"supprime"} |-> "supprime"]

Etape(route, id, corps, status, json, cause, reprise, histoire) ==
  [route |-> route, id |-> id, corps |-> corps, status |-> status, json |-> json,
   cause |-> cause, reprise |-> reprise, depasse |-> histoire.depasse,
   attendu |-> histoire.attendu]

\* A handler suspended at its await, with the locals it captured.
Attente(route, id, corps, hache, histoire) ==
  [route |-> route, id |-> id, corps |-> corps, hache |-> hache,
   depasse |-> histoire.depasse, attendu |-> histoire.attendu]

Suspendu(route, id, corps, histoire) ==
  Etape(route, id, corps, 0, [message |-> "await"], "aucune", FALSE, histoire)

Retire(s, i) == SubSeq(s, 1, i - 1) \o SubSeq(s, i + 1, Len(s))

\* The columns a request body supplies (its truthy fields).
Fournies(corps) == {c \in Colonnes : ~Falsy(corps[c])}

\* The suspended PUTs for `id` that arrived before position `avant` see a
\* request that arrived after them write `ecrits` (column -> value), or
\* delete the row.
Depasse(s, avant, id, ecrits) ==
  [k \in DOMAIN s |->
     IF k < avant /\ s[k].route = "PUT" /\ s[k].id = id
     THEN [s[k] EXCEPT !.depasse =
             IF "supprime" \in DOMAIN ecrits THEN ecrits
             ELSE [c \in DOMAIN @ \cup (DOMAIN ecrits \cap Fournies(s[k].corps)) |->
                     IF c \in DOMAIN ecrits THEN ecrits[c] ELSE @[c]]]
     ELSE s[k]]

Init ==
  /\ variante \in {"index", "part_000"}
  /\ utilisateurs = << >>
  /\ sqlite_sequence = 0
  /\ enAttente = << >>
  /\ reponse = Etape("listen", 0, CorpsVide, 0, [message |-> "Serveur demarre"],
                     "aucune", FALSE, SansHistoire)
  /\ ecrit = << >>
  /\ emis = {}
  /\ supprimes = {}

\* History variables: the plain values last written to each row, the ids
\* returned by a creation, the ids whose deletion was confirmed.
Fantomes == <<ecrit, emis, supprimes>>
Base == <<utilisateurs, sqlite_sequence>>

\* ------------------------------------------------- POST /utilisateurs
CreateArrive(corps) ==
  /\ IF ~validateUserInput(corps)
     THEN /\ reponse' = Etape("POST", 0, CorpsVide, ReponseCreation("validation").status,
                              ReponseCreation("validation").json, "validation", FALSE,
                              SansHistoire)
          /\ UNCHANGED enAttente
     ELSE /\ Len(enAttente) < MaxEnAttente
          /\ enAttente' = Append(enAttente, Attente("POST", 0, corps, AucunHash, SansHistoire))
          /\ reponse' = Suspendu("POST", 0, corps, SansHistoire)
  /\ UNCHANGED <<variante, Base, Fantomes>>

CreateResume(i, sel, ok) ==
  /\ i \in DOMAIN enAttente
  /\ enAttente[i].route = "POST"
  /\ LET corps == enAttente[i].corps
         motdepasse_hashed == argon2_hash(corps.motdepasse, sel)
         result == SqlInsert(utilisateurs, sqlite_sequence,
                             [nomutilisateur |-> corps.nomutilisateur,
                              motdepasse |-> motdepasse_hashed, email |-> corps.email])
         id == result.lastInsertRowid
     IN /\ enAttente' = Retire(enAttente, i)
        /\ IF ~ok
           THEN /\ reponse' = Etape("POST", 0, CorpsVide, ReponseCreation("hachage").status,
                                    ReponseCreation("hachage").json, "hachage", TRUE,
                                    SansHistoire)
                /\ UNCHANGED <<Base, Fantomes>>
           ELSE /\ result.seq <= MaxId
                /\ utilisateurs' = result.t
                /\ sqlite_sequence' = result.seq
                /\ IF result.throw
                   THEN /\ reponse' = Etape("POST", 0, CorpsVide,
                                            ReponseCreation("contrainte").status,
                                            ReponseCreation("contrainte").json, "contrainte",
                                            TRUE, SansHistoire)
                        /\ UNCHANGED Fantomes
                   ELSE /\ reponse' = Etape("POST", id, corps, 201,
                                            [id |-> id, nomutilisateur |-> corps.nomutilisateur,
                                             email |-> corps.email], "aucune", TRUE,
                                            SansHistoire)
                        /\ ecrit' = (id :> [c \in Colonnes |-> corps[c]]) @@ ecrit
                        /\ emis' = emis \cup {id}
                        /\ UNCHANGED supprimes
  /\ UNCHANGED variante

\* ------------------------------------------------- PUT /utilisateurs/:id
\* The handler from the prepared UPDATE to the response.  `reste`: the
\* handlers still suspended; `avant`: those at a position below arrived
\* before this request.
PutExecute(id, corps, h, reste, avant, reprise, histoire) ==
  LET result == SqlUpdate(utilisateurs, id, Updates(corps, h))
      valeurs == [c \in Fournies(corps) |->
                    IF c \in DOMAIN histoire.depasse THEN histoire.depasse[c] ELSE corps[c]]
  IN /\ utilisateurs' = result.t
     /\ UNCHANGED <<sqlite_sequence, emis, supprimes>>
     /\ IF result.throw
        THEN /\ reponse' = Etape("PUT", id, CorpsVide, 400,
                                 [erreur |-> "Erreur lors de la mise a jour de l'utilisateur"],
                                 "contrainte", reprise, histoire)
             /\ enAttente' = reste
             /\ UNCHANGED ecrit
        ELSE IF result.changes = 0
        THEN /\ reponse' = Etape("PUT", id, CorpsVide, 404,
                                 [erreur |-> "Utilisateur non trouve"],
                                 "introuvable", reprise, histoire)
             /\ enAttente' = reste
             /\ UNCHANGED ecrit
        ELSE /\ reponse' = Etape("PUT", id, corps, 200,
                                 [message |-> "Utilisateur mis a jour avec succes"],
                                 "aucune", reprise, histoire)
             /\ enAttente' = Depasse(reste, avant, id, valeurs)
             /\ ecrit' = [j \in DOMAIN result.t |->
                            IF j # id THEN ecrit[j]
                            ELSE [c \in Colonnes |->
                                    IF c \in Fournies(corps) THEN corps[c]
                                    ELSE IF j \in DOMAIN ecrit THEN ecrit[j][c]
                                    ELSE Absent]]

UpdateArrive(id, corps) ==
  /\ IF ~PutAccepte(variante, corps)
     THEN /\ reponse' = Etape("PUT", id, CorpsVide, 400, [erreur |-> ErreurPut(variante)],
                              "validation", FALSE, SansHistoire)
          /\ UNCHANGED <<enAttente, Base, Fantomes>>
     ELSE IF ~Falsy(corps.motdepasse)
     THEN /\ Len(enAttente) < MaxEnAttente
          /\ enAttente' = Append(enAttente, Attente("PUT", id, corps, AucunHash, SansHistoire))
          /\ reponse' = Suspendu("PUT", id, corps, SansHistoire)
          /\ UNCHANGED <<Base, Fantomes>>
     ELSE PutExecute(id, corps, AucunHash, enAttente, Len(enAttente) + 1, FALSE, SansHistoire)
  /\ UNCHANGED variante

UpdateResume(i, sel, ok) ==
  /\ i \in DOMAIN enAttente
  /\ enAttente[i].route = "PUT"
  /\ LET r == enAttente[i]
         histoire == Histoire(r.depasse, r.attendu)
     IN IF ~ok
        THEN /\ reponse' = Etape("PUT", r.id, CorpsVide, 400,
                                 [erreur |-> "Erreur lors de la mise a jour de l'utilisateur"],
                                 "hachage", TRUE, histoire)
             /\ enAttente' = Retire(enAttente, i)
             /\ UNCHANGED <<Base, Fantomes>>
        ELSE PutExecute(r.id, r.corps, argon2_hash(r.corps.motdepasse, sel),
                        Retire(enAttente, i), i, TRUE, histoire)
  /\ UNCHANGED variante

\* ------------------------------------------------- DELETE /utilisateurs/:id
DeleteUtilisateur(id) ==
  /\ LET result == SqlDelete(utilisateurs, id)
     IN /\ utilisateurs' = result.t
        /\ IF result.changes = 0
           THEN /\ reponse' = Etape("DELETE", id, CorpsVide, 404,
                                    [erreur |-> "Utilisateur non trouve"],
                                    "introuvable", FALSE, SansHistoire)
                /\ UNCHANGED <<enAttente, Fantomes>>
           ELSE /\ reponse' = Etape("DELETE", id, CorpsVide, 200,
                                    [message |-> "Utilisateur supprime avec succes"],
                                    "aucune", FALSE, SansHistoire)
                /\ enAttente' = Depasse(enAttente, Len(enAttente) + 1, id, Supprime)
                /\ ecrit' = [j \in DOMAIN ecrit \ {id} |-> ecrit[j]]
                /\ supprimes' = supprimes \cup {id}
                /\ UNCHANGED emis
  /\ UNCHANGED <<variante, sqlite_sequence>>

\* ------------------------------------------------- GET /utilisateurs[/:id]
GetUtilisateur(id) ==
  /\ reponse' =
       IF id \notin DOMAIN utilisateurs
       THEN Etape("GET", id, CorpsVide, 404, [erreur |-> "Utilisateur non trouve"],
                  "introuvable", FALSE, SansHistoire)
       ELSE Etape("GET", id, CorpsVide, 200, Public(utilisateurs, id), "aucune", FALSE,
                  SansHistoire)
  /\ UNCHANGED <<variante, enAttente, Base, Fantomes>>

GetUtilisateurs ==
  /\ reponse' = Etape("GET *", 0, CorpsVide, 200,
                      [lignes |-> Liste(utilisateurs, DOMAIN utilisateurs)],
                      "aucune", FALSE, SansHistoire)
  /\ UNCHANGED <<variante, enAttente, Base, Fantomes>>

\* ------------------------------------------------- POST /verifier-motdepasse
\* The route exists in index.ts only.
VerifyArrive(corps) ==
  /\ variante = "index"
  /\ corps.email = Absent
  /\ IF Falsy(corps.nomutilisateur) \/ Falsy(corps.motdepasse)
     THEN /\ reponse' = Etape("VERIF", 0, CorpsVide, 400,
                              [erreur |-> "Nom d'utilisateur et mot de passe requis"],
                              "validation", FALSE, SansHistoire)
          /\ UNCHANGED enAttente
     ELSE IF ParNom(utilisateurs, corps.nomutilisateur) = {}
     THEN /\ reponse' = Etape("VERIF", 0, corps, 404, [erreur |-> "Utilisateur non trouve"],
                              "introuvable", FALSE, SansHistoire)
          /\ UNCHANGED enAttente
     ELSE LET j == CHOOSE k \in ParNom(utilisateurs, corps.nomutilisateur) : TRUE
              histoire == Histoire(<< >>, ecrit[j].motdepasse)
          IN /\ Len(enAttente) < MaxEnAttente
             /\ enAttente' = Append(enAttente,
                                    Attente("VERIF", j, corps, utilisateurs[j].motdepasse,
                                            histoire))
             /\ reponse' = Suspendu("VERIF", j, corps, histoire)
  /\ UNCHANGED <<variante, Base, Fantomes>>

VerifyResume(i) ==
  /\ i \in DOMAIN enAttente
  /\ enAttente[i].route = "VERIF"
  /\ LET r == enAttente[i]
         histoire == Histoire(r.depasse, r.attendu)
         motdepasseValide == argon2_verify(r.hache, r.corps.motdepasse)
     IN reponse' =
          IF motdepasseValide
          THEN Etape("VERIF", r.id, r.corps, 200, [message |-> "Mot de passe correct !"],
                     "aucune", TRUE, histoire)
          ELSE Etape("VERIF", r.id, r.corps, 401,
                     [erreur |-> "Mot de passe incorrect, desole"],
                     "incorrect", TRUE, histoire)
  /\ enAttente' = Retire(enAttente, i)
  /\ UNCHANGED <<variante, Base, Fantomes>>

Next ==
  \/ \E corps \in Corps : CreateArrive(corps)
  \/ \E i \in 1..MaxEnAttente, sel \in Sels, ok \in BOOLEAN : CreateResume(i, sel, ok)
  \/ \E id \in Ids, corps \in Corps : UpdateArrive(id, corps)
  \/ \E i \in 1..MaxEnAttente, sel \in Sels, ok \in BOOLEAN : UpdateResume(i, sel, ok)
  \/ \E id \in Ids : DeleteUtilisateur(id)
  \/ \E id \in Ids : GetUtilisateur(id)
  \/ GetUtilisateurs
  \/ \E corps \in Corps : VerifyArrive(corps)
  \/ \E i \in 1..MaxEnAttente : VerifyResume(i)

Spec == Init /\ [][Next]_vars

\* ======================================================================
\* Properties
\* ======================================================================

\* Does the stored row hold value `v` in column `c` (for the secret: does
\* the stored token verify `v`)?
Stocke(ligne, c, v) ==
  IF c = "motdepasse" THEN argon2_verify(ligne.motdepasse, v) ELSE ligne[c] = v

\* A body whose username or email is held by a row of the table.
Doublon(t, corps) ==
  \E j \in DOMAIN t :
     t[j].nomutilisateur = corps.nomutilisateur \/ t[j].email = corps.email

AucunCompte(t, nom) == \A j \in DOMAIN t : t[j].nomutilisateur # nom

\* The step resumes the suspended creation at position i.
RepriseCreation(i) ==
  /\ i \in DOMAIN enAttente
  /\ enAttente[i].route = "POST"
  /\ enAttente' = Retire(enAttente, i)
  /\ reponse'.route = "POST"
  /\ reponse'.reprise

Unicite ==
  \A i, j \in DOMAIN utilisateurs :
     i # j => /\ utilisateurs[i].nomutilisateur # utilisateurs[j].nomutilisateur
              /\ utilisateurs[i].email # utilisateurs[j].email

RefusSansEffet ==
  /\ reponse'.cause = "contrainte" => reponse'.status = 400 /\ UNCHANGED Base
  /\ \A i \in 1..MaxEnAttente :
       RepriseCreation(i) /\ Doublon(utilisateurs, enAttente[i].corps)
         => reponse'.status = 400 /\ UNCHANGED Base

\* C1: no two accounts ever share a username or an email, and a creation or
\* update refused for a duplicate leaves the table and its counter as they
\* were.
C1_Unicite == []Unicite /\ [][RefusSansEffet]_vars

\* C1 witness: a creation was refused for a duplicate and the table holds
\* the one account it held before.
C1_Temoin ==
  /\ reponse.route = "POST"
  /\ reponse.cause = "contrainte"
  /\ Cardinality(DOMAIN utilisateurs) = 1

\* C2: for every username that names an account and every candidate secret,
\* the stored token verifies the candidate exactly when the candidate is the
\* secret last written for that account (by its creation or by the latest
\* update that wrote a secret); and a verification answers 200 exactly when
\* the candidate is the secret that was last written for the account it
\* looked up, 401 otherwise.
C2_Verification ==
  /\ \A nom \in Noms, s \in Secrets :
       \A j \in DOMAIN utilisateurs :
          utilisateurs[j].nomutilisateur = nom
            => (argon2_verify(utilisateurs[j].motdepasse, s) <=> s = ecrit[j].motdepasse)
  /\ reponse.route = "VERIF" /\ reponse.reprise
       => /\ reponse.status \in {200, 401}
          /\ reponse.status = 200 <=> reponse.corps.motdepasse = reponse.attendu

\* C2 witness: a verification matched, for an account whose secret an
\* update has replaced (the other secret no longer verifies).
C2_Temoin ==
  /\ reponse.route = "VERIF"
  /\ reponse.status = 200
  /\ \E j \in DOMAIN utilisateurs :
       /\ utilisateurs[j].nomutilisateur = reponse.corps.nomutilisateur
       /\ ecrit[j].motdepasse = reponse.corps.motdepasse
       /\ utilisateurs[j].motdepasse.sel = 2

CadreMiseAJour ==
  reponse'.route = "PUT" /\ reponse'.status = 200 =>
    LET id == reponse'.id
        corps == reponse'.corps
    IN /\ id \in DOMAIN utilisateurs
       /\ DOMAIN utilisateurs' = DOMAIN utilisateurs
       /\ sqlite_sequence' = sqlite_sequence
       /\ \A j \in DOMAIN utilisateurs : j # id => utilisateurs'[j] = utilisateurs[j]
       /\ \A c \in {"nomutilisateur", "email"} :
            utilisateurs'[id][c] = IF Falsy(corps[c]) THEN utilisateurs[id][c] ELSE corps[c]
       /\ IF Falsy(corps.motdepasse)
          THEN utilisateurs'[id].motdepasse = utilisateurs[id].motdepasse
          ELSE /\ argon2_verify(utilisateurs'[id].motdepasse, corps.motdepasse)
               /\ utilisateurs'[id].motdepasse.sel \in Sels
       /\ Public(utilisateurs', id).email =
            IF Falsy(corps.email) THEN utilisateurs[id].email ELSE corps.email

\* C3: a successful update changes exactly the columns its body supplies
\* (the secret as a hash of it), leaves the other columns of the row, the
\* other rows and the id counter unchanged, and a read of the account
\* returns the new email.
C3_Cadre == [][CadreMiseAJour]_vars

\* C3 witness: an update supplying only the email succeeded and the row
\* holds the new email.
C3_Temoin ==
  /\ reponse.route = "PUT"
  /\ reponse.status = 200
  /\ Fournies(reponse.corps) = {"email"}
  /\ reponse.corps.email = "new@x"
  /\ utilisateurs[reponse.id].email = "new@x"

CreationFraiche ==
  /\ reponse'.route = "POST" /\ reponse'.status = 201 =>
       /\ DOMAIN reponse'.json = {"id", "nomutilisateur", "email"}
       /\ reponse'.json.id \notin DOMAIN utilisateurs
       /\ reponse'.json.id \notin emis
       /\ reponse'.json.id \in DOMAIN utilisateurs'
       /\ Public(utilisateurs', reponse'.json.id) = reponse'.json
       /\ reponse'.json.nomutilisateur = reponse'.corps.nomutilisateur
       /\ reponse'.json.email = reponse'.corps.email
  /\ \A i \in 1..MaxEnAttente :
       /\ RepriseCreation(i)
       /\ reponse'.cause # "hachage"
       /\ ~Doublon(utilisateurs, enAttente[i].corps)
       => reponse'.status = 201

\* C4: a creation whose hash completes and whose username and email are
\* held by no row when it inserts succeeds; the account returned carries
\* id, username and email only, and its id is in no row of the table and
\* was returned by no earlier creation, deleted accounts included.
C4_IdFrais == [][CreationFraiche]_vars

\* C4 witness: a creation succeeded after an account was deleted.
C4_Temoin ==
  /\ reponse.route = "POST"
  /\ reponse.status = 201
  /\ supprimes # {}

EchecSansEffet ==
  reponse'.route \in {"POST", "PUT", "DELETE"} /\ reponse'.status >= 400
    => UNCHANGED <<utilisateurs, sqlite_sequence>>

\* C5: a creation, update or deletion that ends in a failure leaves the
\* table and its id counter unchanged.
C5_EchecSansEffet == [][EchecSansEffet]_vars

\* C5 witness: an update that supplied a secret was refused for a duplicate.
C5_Temoin ==
  /\ reponse.route = "PUT"
  /\ reponse.cause = "contrainte"
  /\ reponse.reprise

\* C6 as claimed: after a successful update, each column that a
\* later-arriving update of the same account has also written holds the
\* later-arriving request's value.
C6_OrdreArrivee ==
  reponse.route = "PUT" /\ reponse.status = 200
    => \A c \in DOMAIN reponse.depasse :
          Stocke(utilisateurs[reponse.id], c, reponse.depasse[c])

\* C6 amended: the writes apply in the order in which the UPDATE statements
\* execute (on arrival for a request without a secret, once its hash
\* completes for one with a secret): every column of every account holds
\* the value of the last executed write that supplied it, and right after a
\* successful update the row holds every value that update supplied.
C6_DernierEcrit ==
  /\ \A id \in DOMAIN utilisateurs, c \in Colonnes :
        Stocke(utilisateurs[id], c, ecrit[id][c])
  /\ reponse.route = "PUT" /\ reponse.status = 200
       => \A c \in Fournies(reponse.corps) :
             Stocke(utilisateurs[reponse.id], c, reponse.corps[c])

\* C6 witness: an update wrote a column over the different value of an
\* update that arrived after it.
C6_Temoin ==
  /\ reponse.route = "PUT"
  /\ reponse.status = 200
  /\ \E c \in DOMAIN reponse.depasse :
       /\ reponse.depasse[c] # reponse.corps[c]
       /\ Stocke(utilisateurs[reponse.id], c, reponse.corps[c])

IssueVerification ==
  reponse'.route = "VERIF" /\ reponse'.cause # "validation" =>
    IF ~reponse'.reprise
    THEN /\ reponse'.status \in {0, 404}
         /\ reponse'.status = 404
              <=> AucunCompte(utilisateurs, reponse'.corps.nomutilisateur)
    ELSE /\ reponse'.status \in {200, 401}
         /\ reponse'.status = 401 <=> reponse'.corps.motdepasse # reponse'.attendu

\* C7: a verification with both fields present answers 404 exactly when no
\* row holds the username at the lookup, and 401 exactly when a row holds
\* it and the candidate is not the secret last written for that account.
C7_IssueVerification == [][IssueVerification]_vars

\* C7 witness: a verification answered 401 for an existing account.
C7_Temoin ==
  /\ reponse.route = "VERIF"
  /\ reponse.status = 401
  /\ reponse.corps.motdepasse # reponse.attendu
  /\ ~AucunCompte(utilisateurs, reponse.corps.nomutilisateur)

\* C8 as claimed: the response of a failed creation differs from the
\* response the handler gives for each other cause of failure.
C8_CausesDistinctes ==
  reponse.route = "POST" /\ reponse.status >= 400
    => \A c \in {"validation", "contrainte", "hachage"} \ {reponse.cause} :
          <<reponse.status, reponse.json>>
            # <<ReponseCreation(c).status, ReponseCreation(c).json>>

SuppressionDefinitive ==
  /\ reponse'.route = "DELETE" =>
       /\ reponse'.status \in {200, 404}
       /\ reponse'.status = 200 <=> reponse'.id \in DOMAIN utilisateurs
       /\ reponse'.id \in supprimes => reponse'.status = 404
       /\ reponse'.id \notin DOMAIN utilisateurs'
  /\ reponse'.route = "GET" /\ reponse'.id \in supprimes => reponse'.status = 404

\* C9: a deletion answers 200 when the row exists and 404 when it does not;
\* an id whose deletion was confirmed is in no row ever after, whatever is
\* created later, so a second deletion and a read of it answer 404.
C9_Suppression == [](supprimes \cap DOMAIN utilisateurs = {}) /\ [][SuppressionDefinitive]_vars

\* C9 witness: a second deletion of a deleted id answered 404 after a later
\* creation.
C9_Temoin ==
  /\ reponse.route = "DELETE"
  /\ reponse.status = 404
  /\ reponse.id \in supprimes
  /\ \E j \in DOMAIN utilisateurs : j > reponse.id

RepriseApresSuppression ==
  /\ reponse'.route = "PUT"
  /\ reponse'.reprise
  /\ "supprime" \in DOMAIN reponse'.depasse
  /\ reponse'.cause # "hachage"
  => /\ reponse'.status = 404
     /\ UNCHANGED <<utilisateurs, sqlite_sequence>>

\* C10: an update whose target row was deleted while it waited for its
\* hash answers 404 when the hash completes and leaves the table unchanged.
C10_RepriseApresSuppression == [][RepriseApresSuppression]_vars

\* C10 witness: such an update answered 404.
C10_Temoin ==
  /\ reponse.route = "PUT"
  /\ reponse.reprise
  /\ reponse.status = 404
  /\ "supprime" \in DOMAIN reponse.depasse
  /\ reponse.id \in supprimes

====
